---- MODULE Spec2Model ----
(***************************************************************************)
(* A model of src/main.py, the web-article analyzer: the text analysis     *)
(* engine (analyze_article_text, count_syllables), the stopword remover    *)
(* (read_stopwords, remove_stopwords_from_text), the lexicon loader        *)
(* (read_word_list), the downloader's retry loop (download_article) and    *)
(* the two loops of main that build the report.                            *)
(*                                                                         *)
(* A Python str is a sequence of one-character strings, so that lower(),   *)
(* isalpha(), split(), strip() and join() are computed, not assumed.       *)
(* A Python float that is the quotient of two integers is the pair         *)
(* <<numerator, denominator>>; round(x, 3) gives an integer number of      *)
(* thousandths.                                                            *)
(***************************************************************************)
EXTENDS Integers, Sequences, FiniteSets, TLC

VARIABLES
    \* analyze_article_text / count_syllables
    text,               \* the text argument, as the tokens nltk.word_tokenize yields
    sentence_count,     \* len(nltk.sent_tokenize(text))
    positive_words,     \* the positive lexicon
    negative_words,     \* the negative lexicon
    pronunciation_dict, \* the module-level cmudict snapshot (main.py:16-20)
    an_pc,              \* "input" | "syllables" | "returned" | "raised"
    locals,             \* the local variables of analyze_article_text at return
    results,            \* the dict analyze_article_text returns
    sy_word,            \* the argument of a count_syllables call
    sy_result,          \* what that call returned
    \* read_stopwords / remove_stopwords_from_text
    stop_files,         \* the contents of the .txt files of the stopword folder
    stopwords,          \* what read_stopwords returned
    rs_text,            \* the text the remover is first given
    rs_out,             \* the successive outputs of remove_stopwords_from_text
    rs_pc,              \* "load" | "clean"
    \* read_word_list
    wl_lines,           \* the lines of the word-list file
    wl_fail_at,         \* -1: the read succeeds; k: the read fails after k lines
    wl_pos,             \* lines consumed so far
    wl_words,           \* the local set words
    wl_pc,              \* "open" | "reading" | "returned"
    wl_failed,          \* the except branch ran
    \* download_article
    da_pc,              \* "idle" | "get" | "status" | "parse" | "returned"
    da_attempt,         \* the loop variable attempt
    da_requests,        \* requests.get calls issued so far
    da_successes,       \* attempts that passed raise_for_status
    da_request_errors,  \* attempts that ended in a RequestException
    da_after_success,   \* requests.get calls issued after a successful attempt
    da_response,        \* the binding of response: << >> unbound, or << r >>
    da_parsed,          \* << >>, or << r >> once BeautifulSoup was given r
    da_result,          \* << >>, or << pair >> once download_article returned
    \* main
    url_data,           \* the rows of the input sheet: [URL_ID, URL]
    dl_results,         \* per row: what download_article returns for its URL
    m_pc,               \* "download" | "analyze" | "done"
    m_index,            \* position of the running loop
    article_keys,       \* article_info: its keys in insertion order
    article_info,       \* article_info: key -> [url, filename]
    files,              \* per folder: filename -> the URL whose text the file holds
    all_results         \* the rows of the report

vars == << text, sentence_count, positive_words, negative_words, pronunciation_dict,
           an_pc, locals, results, sy_word, sy_result,
           stop_files, stopwords, rs_text, rs_out, rs_pc,
           wl_lines, wl_fail_at, wl_pos, wl_words, wl_pc, wl_failed,
           da_pc, da_attempt, da_requests, da_successes, da_request_errors,
           da_after_success, da_response, da_parsed, da_result,
           url_data, dl_results, m_pc, m_index, article_keys, article_info, files,
           all_results >>

analysisVars == << text, sentence_count, positive_words, negative_words,
                   pronunciation_dict, an_pc, locals, results, sy_word, sy_result >>
stopVars == << stop_files, stopwords, rs_text, rs_out, rs_pc >>
wordListVars == << wl_lines, wl_fail_at, wl_pos, wl_words, wl_pc, wl_failed >>
downloadVars == << da_pc, da_attempt, da_requests, da_successes, da_request_errors,
                   da_after_success,
                   da_response, da_parsed, da_result >>
mainVars == << url_data, dl_results, m_pc, m_index, article_keys, article_info, files,
               all_results >>

----------------------------------------------------------------------------
(* Bounds of the model *)

MaxWords == 3
MaxSentences == 2
MaxSyllableWordLen == 3
MaxPhonemes == 2
MaxVariants == 2
MaxTextLen == 4
MaxStopFiles == 1
MaxApplications == 2
MaxLines == 2
MaxLineLen == 2
MaxParagraphs == 2
MaxRows == 3

----------------------------------------------------------------------------
(* Python str operations on sequences of characters *)

UpperCase == << "A","B","C","D","E","F","G","H","I","J","K","L","M",
                "N","O","P","Q","R","S","T","U","V","W","X","Y","Z" >>
LowerCase == << "a","b","c","d","e","f","g","h","i","j","k","l","m",
                "n","o","p","q","r","s","t","u","v","w","x","y","z" >>
Digits == { "0","1","2","3","4","5","6","7","8","9" }
Whitespace == { " ", "\t", "\n" }
Range(s) == { s[i] : i \in DOMAIN s }
Letters == Range(UpperCase) \cup Range(LowerCase)

\* str.lower(), one character
LowerChar(c) ==
    IF \E i \in DOMAIN UpperCase : UpperCase[i] = c
    THEN LowerCase[CHOOSE i \in DOMAIN UpperCase : UpperCase[i] = c]
    ELSE c

\* str.lower()
Lower(s) == [ i \in DOMAIN s |-> LowerChar(s[i]) ]

\* str.isalpha(): non-empty and every character a letter
IsAlpha(s) == s # << >> /\ \A i \in DOMAIN s : s[i] \in Letters

\* str.isdigit() of one character
IsDigit(c) == c \in Digits

\* a list comprehension [x for x in s if keep[x]], by positions
RECURSIVE FilterSeq(_, _)
FilterSeq(s, keep) ==
    IF s = << >> THEN << >>
    ELSE LET rest == FilterSeq(Tail(s), [ i \in 1..(Len(s) - 1) |-> keep[i + 1] ])
         IN  IF keep[1] THEN << Head(s) >> \o rest ELSE rest

\* the sequences over S of length lo..hi
SeqsOf(S, lo, hi) == UNION { [ 1..k -> S ] : k \in lo..hi }

RECURSIVE SumSeq(_)
SumSeq(s) == IF s = << >> THEN 0 ELSE Head(s) + SumSeq(Tail(s))

Max(a, b) == IF a >= b THEN a ELSE b

----------------------------------------------------------------------------
(* count_syllables, main.py:116-138 *)

\* the words and tokens the analysis is run on
W_good == << "g","o","o","d" >>
W_bad == << "b","a","d" >>
W_Bad == << "B","a","d" >>
W_unify == << "u","n","i","f","y" >>
W_We == << "W","e" >>
W_hmm == << "h","m","m" >>
T_42 == << "4","2" >>

\* cmudict phonemes: a vowel phoneme ends in its stress digit
PH_M == << "M" >>
PH_AH0 == << "A","H","0" >>
PH_AE1 == << "A","E","1" >>

Vowels == { "a","e","i","o","u","y" }

\* line 122: the phonemes of the first variant that end in a digit
DictSyllables(variants) ==
    LET first == variants[1]
    IN  Cardinality({ i \in DOMAIN first : IsDigit(first[i][Len(first[i])]) })

\* lines 125-135: the for loop, as count after scanning word from position i
RECURSIVE VowelRuns(_, _, _, _)
VowelRuns(word, i, count, prev_was_vowel) ==
    IF i > Len(word) THEN count
    ELSE IF word[i] \in Vowels
         THEN VowelRuns(word, i + 1,
                        IF ~prev_was_vowel THEN count + 1 ELSE count, TRUE)
         ELSE VowelRuns(word, i + 1, count, FALSE)

count_syllables(word) ==
    LET w == Lower(word)
    IN  IF w \in DOMAIN pronunciation_dict
        THEN DictSyllables(pronunciation_dict[w])
        ELSE Max(1, VowelRuns(w, 1, 0, FALSE))

----------------------------------------------------------------------------
(* analyze_article_text, main.py:154-230 *)

\* line 162: clean_words = [word for word in words if word.isalpha()]
CleanWords(words) == FilterSeq(words, [ i \in DOMAIN words |-> IsAlpha(words[i]) ])

\* lines 172-180: both membership tests run for every word
PositiveCount(clean_words, pos) ==
    Cardinality({ i \in DOMAIN clean_words : Lower(clean_words[i]) \in pos })
NegativeCount(clean_words, neg) ==
    Cardinality({ i \in DOMAIN clean_words : Lower(clean_words[i]) \in neg })

\* line 209: re.findall(r'\b(I|we|my|ours|us)\b', text, re.IGNORECASE)
Pronouns == << << "i" >>, << "w","e" >>, << "m","y" >>,
               << "o","u","r","s" >>, << "u","s" >> >>
IsWordChar(c) == c \in Letters \cup Digits \cup { "_" }
\* \b at the gap before position p of s
Boundary(s, p) ==
    LET before == p > 1 /\ p - 1 <= Len(s) /\ IsWordChar(s[p - 1])
        after == p >= 1 /\ p <= Len(s) /\ IsWordChar(s[p])
    IN  before # after
\* s is the token lower-cased: re.IGNORECASE
AltMatches(s, i, alt) ==
    /\ i + Len(alt) - 1 <= Len(s)
    /\ SubSeq(s, i, i + Len(alt) - 1) = alt
    /\ Boundary(s, i)
    /\ Boundary(s, i + Len(alt))
\* the non-overlapping matches found scanning s from position i; the regex
\* takes the first alternative that matches, and all of them count alike
RECURSIVE FindAll(_, _)
FindAll(s, i) ==
    IF i > Len(s) THEN 0
    ELSE LET hits == { a \in DOMAIN Pronouns : AltMatches(s, i, Pronouns[a]) }
         IN  IF hits # { }
             THEN 1 + FindAll(s, i + Len(Pronouns[CHOOSE a \in hits : \A b \in hits : a <= b]))
             ELSE FindAll(s, i + 1)
\* the text is held as its tokens; a token boundary is whitespace or a word
\* boundary, so no match spans two tokens
PersonalPronouns(txt) == SumSeq([ i \in DOMAIN txt |-> FindAll(Lower(txt[i]), 1) ])

\* line 168 with the sentence test forgotten
ShortCircuitNoSentenceTest(word_count, sentence_cnt) == word_count = 0

\* line 168: the zero-count short-circuit
ShortCircuit(word_count, sentence_cnt) == word_count = 0 \/ sentence_cnt = 0

\* lines 198-202: the syllables of each clean word
SyllableList(clean_words) == [ i \in DOMAIN clean_words |-> count_syllables(clean_words[i]) ]
\* lines 201-202 adding the syllables instead of 1
ComplexWordCountAddsSyllables(syllables) ==
    SumSeq([ i \in DOMAIN syllables |-> IF syllables[i] > 2 THEN syllables[i] ELSE 0 ])
ComplexWordCount(syllables) == Cardinality({ i \in DOMAIN syllables : syllables[i] > 2 })

\* the integer locals of analyze_article_text
Counts(txt, pos, neg, sentence_cnt) ==
    LET clean_words == CleanWords(txt)
        syllables == SyllableList(clean_words)
        positive_count == PositiveCount(clean_words, pos)
        negative_count == NegativeCount(clean_words, neg)
    IN  [ word_count |-> Len(clean_words),
          sentence_count |-> sentence_cnt,
          positive_count |-> positive_count,
          negative_count |-> negative_count,
          total_sentiment_words |-> positive_count + negative_count,
          syllables |-> syllables,
          complex_word_count |-> ComplexWordCount(syllables),
          total_syllables |-> SumSeq(syllables),
          personal_pronouns |-> PersonalPronouns(txt),
          total_chars |-> SumSeq([ i \in DOMAIN clean_words |-> Len(clean_words[i]) ]) ]

\* the divisors of the divisions at lines 185, 186, 192, 204, 206 and 213
Divisors(c) ==
    (IF c.total_sentiment_words > 0 THEN { c.total_sentiment_words } ELSE { })
        \cup { c.word_count, c.sentence_count }

\* lines 184-189, as quotients <<numerator, denominator>>
Polarity(c) ==
    IF c.total_sentiment_words > 0
    THEN << c.positive_count - c.negative_count, c.total_sentiment_words >>
    ELSE << 0, 1 >>
Subjectivity(c) ==
    IF c.total_sentiment_words > 0
    THEN << c.total_sentiment_words, c.word_count >>
    ELSE << 0, 1 >>
\* line 192
AvgSentenceLength(c) == << c.word_count, c.sentence_count >>
\* line 204
PercentageComplex(c) == << c.complex_word_count * 100, c.word_count >>
\* line 205: 0.4 * (word_count / sentence_count + 100 * complex / word_count)
FogIndex(c) ==
    << 2 * (c.word_count * c.word_count + 100 * c.complex_word_count * c.sentence_count),
       5 * c.sentence_count * c.word_count >>
\* line 206
AvgSyllablesPerWord(c) == << c.total_syllables, c.word_count >>
\* line 213
AvgWordLength(c) == << c.total_chars, c.word_count >>

\* round(q, 3) in thousandths, ties to even; q[2] > 0
Round3(q) ==
    LET n == 2000 * q[1] + q[2]
        d == 2 * q[2]
        up == n \div d
    IN  IF n % d = 0 /\ up % 2 = 1 THEN up - 1 ELSE up

FieldNames ==
    { "POSITIVE SCORE", "NEGATIVE SCORE", "POLARITY SCORE", "SUBJECTIVITY SCORE",
      "AVG SENTENCE LENGTH", "PERCENTAGE OF COMPLEX WORDS", "FOG INDEX",
      "AVG NUMBER OF WORDS PER SENTENCE", "COMPLEX WORD COUNT", "WORD COUNT",
      "SYLLABLE PER WORD", "PERSONAL PRONOUNS", "AVG WORD LENGTH" }

\* lines 216-230: integer fields as they are, rounded fields in thousandths
MetricRecord(c) ==
    [ f \in FieldNames |->
        CASE f = "POSITIVE SCORE" -> c.positive_count
          [] f = "NEGATIVE SCORE" -> c.negative_count
          [] f = "POLARITY SCORE" -> Round3(Polarity(c))
          [] f = "SUBJECTIVITY SCORE" -> Round3(Subjectivity(c))
          [] f = "AVG SENTENCE LENGTH" -> Round3(AvgSentenceLength(c))
          [] f = "PERCENTAGE OF COMPLEX WORDS" -> Round3(PercentageComplex(c))
          [] f = "FOG INDEX" -> Round3(FogIndex(c))
          [] f = "AVG NUMBER OF WORDS PER SENTENCE" -> Round3(AvgSentenceLength(c))
          [] f = "COMPLEX WORD COUNT" -> c.complex_word_count
          [] f = "WORD COUNT" -> c.word_count
          [] f = "SYLLABLE PER WORD" -> Round3(AvgSyllablesPerWord(c))
          [] f = "PERSONAL PRONOUNS" -> c.personal_pronouns
          [] f = "AVG WORD LENGTH" -> Round3(AvgWordLength(c)) ]

\* line 169: return {}
EmptyRecord == [ f \in { } |-> 0 ]

\* the quotients held in polarity, subjectivity, ... when the record is built
Quotients(c) ==
    [ polarity |-> Polarity(c),
      subjectivity |-> Subjectivity(c),
      avg_sentence_length |-> AvgSentenceLength(c),
      percentage_complex |-> PercentageComplex(c),
      fog_index |-> FogIndex(c),
      avg_syllables_per_word |-> AvgSyllablesPerWord(c),
      avg_word_length |-> AvgWordLength(c) ]

\* one call of analyze_article_text on the inputs of the state
AnalyzeArticleText ==
    /\ an_pc = "input"
    /\ \E c \in { Counts(text, positive_words, negative_words, sentence_count) } :
           IF ShortCircuit(c.word_count, c.sentence_count)
           THEN /\ an_pc' = "returned"
                /\ results' = EmptyRecord
                /\ locals' = [ counts |-> c ]
           ELSE IF 0 \in Divisors(c)
           THEN /\ an_pc' = "raised"       \* ZeroDivisionError
                /\ results' = EmptyRecord
                /\ locals' = [ counts |-> c ]
           ELSE /\ an_pc' = "returned"
                /\ results' = MetricRecord(c)
                /\ locals' = [ counts |-> c, quotients |-> Quotients(c) ]
    /\ UNCHANGED << text, sentence_count, positive_words, negative_words,
                    pronunciation_dict, sy_word, sy_result >>
    /\ UNCHANGED << stopVars, wordListVars, downloadVars, mainVars >>

\* one call of count_syllables on some word
CountSyllablesCall(word) ==
    /\ an_pc = "syllables"
    /\ an_pc' = "returned"
    /\ sy_word' = word
    /\ sy_result' = count_syllables(word)
    /\ UNCHANGED << text, sentence_count, positive_words, negative_words,
                    pronunciation_dict, locals, results >>
    /\ UNCHANGED << stopVars, wordListVars, downloadVars, mainVars >>

----------------------------------------------------------------------------
(* The states the parts not under study rest in *)

AnalysisIdle ==
    /\ text = << >> /\ sentence_count = 0
    /\ positive_words = { } /\ negative_words = { }
    /\ pronunciation_dict = << >>
    /\ an_pc = "idle" /\ locals = << >> /\ results = EmptyRecord
    /\ sy_word = << >> /\ sy_result = 0
StopIdle ==
    /\ stop_files = << >> /\ stopwords = { } /\ rs_text = << >>
    /\ rs_out = << >> /\ rs_pc = "idle"
WordListIdle ==
    /\ wl_lines = << >> /\ wl_fail_at = -1 /\ wl_pos = 0 /\ wl_words = { }
    /\ wl_pc = "idle" /\ wl_failed = FALSE
DownloadIdle ==
    /\ da_pc = "idle" /\ da_attempt = 0 /\ da_requests = 0 /\ da_successes = 0
    /\ da_request_errors = 0 /\ da_after_success = 0 /\ da_response = << >>
    /\ da_parsed = << >> /\ da_result = << >>
MainIdle ==
    /\ url_data = << >> /\ dl_results = << >> /\ m_pc = "idle" /\ m_index = 0
    /\ article_keys = << >> /\ article_info = << >>
    /\ files = [ articles |-> << >>, articles_clean |-> << >> ]
    /\ all_results = << >>

----------------------------------------------------------------------------
(* The analysis engine: analyze_article_text on bounded inputs *)

\* the tokens nltk.word_tokenize may yield: words and a number
Vocab == { W_good, W_Bad, W_unify, W_We, T_42 }
\* the lexicons hold lower-cased words (read_word_list, line 146)
LexWords == { W_good, W_bad }
\* the dictionary absent (line 20), or a cmudict excerpt
NoDict == [ w \in { } |-> << >> ]
CmuExcerpt ==
    [ w \in { W_bad, W_unify } |->
        IF w = W_bad
        THEN << << << "B" >>, PH_AE1, << "D" >> >> >>
        ELSE << << << "Y" >>, << "U","W","1" >>, << "N" >>, PH_AH0, << "F" >>,
                   << "A","Y","2" >> >> >> ]
AnalysisDicts == { NoDict, CmuExcerpt }

Init ==
    /\ text \in SeqsOf(Vocab, 0, MaxWords)
    /\ sentence_count \in 0..MaxSentences
    /\ positive_words \in SUBSET LexWords
    /\ negative_words \in SUBSET LexWords
    /\ pronunciation_dict \in AnalysisDicts
    /\ an_pc = "input" /\ locals = << >> /\ results = EmptyRecord
    /\ sy_word = << >> /\ sy_result = 0
    /\ StopIdle /\ WordListIdle /\ DownloadIdle /\ MainIdle

Next == AnalyzeArticleText

Spec == Init /\ [][Next]_vars

\* analyze_article_text returned a full metric record
ReturnedRecord == an_pc = "returned" /\ DOMAIN results = FieldNames

\* C1: in every returned metric record, whatever the two lexicons (shared
\* words included), POSITIVE SCORE + NEGATIVE SCORE <= WORD COUNT.
C1_ScoresWithinWordCount ==
    ReturnedRecord =>
        results["POSITIVE SCORE"] + results["NEGATIVE SCORE"] <= results["WORD COUNT"]

\* C2: whenever positive_count + negative_count > 0, the computed polarity is
\* in [-1, 1] and the computed subjectivity is in [0, 1].
C2_PolaritySubjectivityRanges ==
    (ReturnedRecord /\ locals.counts.total_sentiment_words > 0) =>
        LET pol == locals.quotients.polarity
            sub == locals.quotients.subjectivity
        IN  /\ pol[2] > 0 /\ -pol[2] <= pol[1] /\ pol[1] <= pol[2]
            /\ sub[2] > 0 /\ 0 <= sub[1] /\ sub[1] <= sub[2]

\* C7: analyze_article_text returns the empty record exactly when the sentence
\* count or the clean-word count is 0; otherwise it returns a record with all
\* 13 fields, and no division is by zero (no call raises).
C7_EmptyExactlyWhenDegenerate ==
    /\ an_pc # "raised"
    /\ an_pc = "returned" =>
         LET degenerate == sentence_count = 0 \/ Len(CleanWords(text)) = 0
         IN  /\ (DOMAIN results = { }) <=> degenerate
             /\ ~degenerate => /\ DOMAIN results = FieldNames
                               /\ 0 \notin Divisors(locals.counts)

\* a full record was returned for a text with clean words none of which is in
\* a lexicon: the guarded branch of lines 184-189
C7_Witness ==
    /\ ReturnedRecord
    /\ locals.counts.total_sentiment_words = 0
    /\ results["WORD COUNT"] > 1

\* C9: in every returned metric record COMPLEX WORD COUNT <= WORD COUNT, and
\* the percentage of complex words lies in [0, 100].
C9_ComplexWithinWordCount ==
    ReturnedRecord =>
        LET pct == locals.quotients.percentage_complex
        IN  /\ results["COMPLEX WORD COUNT"] <= results["WORD COUNT"]
            /\ pct[2] > 0 /\ 0 <= pct[1] /\ pct[1] <= 100 * pct[2]
            /\ results["PERCENTAGE OF COMPLEX WORDS"] \in 0..100000

\* a record where every clean word is complex, and several are
C9_Witness ==
    /\ ReturnedRecord
    /\ results["COMPLEX WORD COUNT"] = results["WORD COUNT"]
    /\ results["WORD COUNT"] > 1
    /\ results["PERCENTAGE OF COMPLEX WORDS"] = 100000

----------------------------------------------------------------------------
(* The syllable estimator: count_syllables on bounded words and dictionaries *)

SyllableChars == { "a", "h", "m", "H" }
SyllableWords == SeqsOf(SyllableChars, 0, MaxSyllableWordLen)
\* pronunciations: non-empty sequences of phonemes; entries: non-empty lists of them
Pronunciations == SeqsOf({ PH_M, PH_AH0 }, 1, MaxPhonemes)
DictEntries == SeqsOf(Pronunciations, 1, MaxVariants)
DictKeys == { W_hmm, << "a" >> }
SyllableDicts == UNION { [ K -> DictEntries ] : K \in SUBSET DictKeys }

InitSyllables ==
    /\ pronunciation_dict \in SyllableDicts
    /\ text = << >> /\ sentence_count = 0
    /\ positive_words = { } /\ negative_words = { }
    /\ an_pc = "syllables" /\ locals = << >> /\ results = EmptyRecord
    /\ sy_word = << >> /\ sy_result = 0
    /\ StopIdle /\ WordListIdle /\ DownloadIdle /\ MainIdle

NextSyllables == \E word \in SyllableWords : CountSyllablesCall(word)

SpecSyllables == InitSyllables /\ [][NextSyllables]_vars

\* C3: count_syllables returns an integer >= 1 for every word, found in the
\* pronunciation dictionary or not, whatever the dictionary holds.
C3_AtLeastOneSyllable ==
    an_pc = "returned" => sy_result >= 1

----------------------------------------------------------------------------
(* read_stopwords and remove_stopwords_from_text, main.py:86-114 *)

\* str.split(): the maximal runs of non-whitespace characters, in order
RECURSIVE SplitFrom(_, _, _, _)
SplitFrom(s, i, cur, acc) ==
    LET flushed == IF cur # << >> THEN Append(acc, cur) ELSE acc
    IN  IF i > Len(s) THEN flushed
        ELSE IF s[i] \in Whitespace
             THEN SplitFrom(s, i + 1, << >>, flushed)
             ELSE SplitFrom(s, i + 1, Append(cur, s[i]), acc)
Split(s) == SplitFrom(s, 1, << >>, << >>)

\* sep.join(parts)
RECURSIVE Join(_, _)
Join(sep, parts) ==
    IF parts = << >> THEN << >>
    ELSE IF Len(parts) = 1 THEN parts[1]
    ELSE parts[1] \o sep \o Join(sep, Tail(parts))

\* lines 90-103: every whitespace-delimited token of every file, as it is
\* written in the file; the latin-1 retry of lines 97-101 only changes how the
\* bytes are decoded, and the contents here are the decoded characters
read_stopwords(folder) ==
    UNION { Range(Split(folder[i])) : i \in DOMAIN folder }

\* lines 110-112: the words kept by the loop
KeptWords(words, stops) ==
    FilterSeq(words, [ i \in DOMAIN words |-> Lower(words[i]) \notin stops ])

\* line 114 joining with the empty string
remove_stopwords_joined_without_space(txt, stops) ==
    Join(<< >>, KeptWords(Split(txt), stops))

remove_stopwords_from_text(txt, stops) ==
    Join(<< " " >>, KeptWords(Split(txt), stops))

\* main.py:264: stopwords = read_stopwords(stopwords_folder)
LoadStopwords ==
    /\ rs_pc = "load"
    /\ stopwords' = read_stopwords(stop_files)
    /\ rs_pc' = "clean"
    /\ UNCHANGED << stop_files, rs_text, rs_out >>
    /\ UNCHANGED << analysisVars, wordListVars, downloadVars, mainVars >>

\* main.py:278: one call of remove_stopwords_from_text, on the text first and
\* then on its own output
RemoveStopwords ==
    /\ rs_pc = "clean"
    /\ Len(rs_out) < MaxApplications
    /\ LET input == IF rs_out = << >> THEN rs_text ELSE rs_out[Len(rs_out)]
       IN  rs_out' = Append(rs_out, remove_stopwords_from_text(input, stopwords))
    /\ UNCHANGED << stop_files, stopwords, rs_text, rs_pc >>
    /\ UNCHANGED << analysisVars, wordListVars, downloadVars, mainVars >>

TextChars == { "a", "A", "b", " " }
\* stopword files as shipped: one word per line, in upper or lower case
StopFileTexts ==
    { << >>, << "a" >>, << "A" >>, << "b", "\n" >>, << "a", "\n", "B" >>,
      << "a", "b", "\n", "A" >> }

InitStopwords ==
    /\ stop_files \in SeqsOf(StopFileTexts, 0, MaxStopFiles)
    /\ rs_text \in SeqsOf(TextChars, 0, MaxTextLen)
    /\ stopwords = { } /\ rs_out = << >> /\ rs_pc = "load"
    /\ AnalysisIdle /\ WordListIdle /\ DownloadIdle /\ MainIdle

NextStopwords == LoadStopwords \/ RemoveStopwords

SpecStopwords == InitStopwords /\ [][NextStopwords]_vars

\* some stopword equals the token when letter case is ignored
IsStopwordIgnoringCase(token, stops) == \E sw \in stops : Lower(sw) = Lower(token)

\* C4: remove_stopwords_from_text removes every whitespace-delimited token that
\* equals a stopword when case is ignored, in whatever case read_stopwords
\* loaded the stopword, and keeps the other tokens in their order.
C4_RemovesStopwordsIgnoringCase ==
    Len(rs_out) >= 1 =>
        LET words == Split(rs_text)
        IN  Split(rs_out[1]) =
                FilterSeq(words, [ i \in DOMAIN words |->
                                     ~IsStopwordIgnoringCase(words[i], stopwords) ])

\* C5: stopword removal is idempotent: removing the stopwords of an output of
\* remove_stopwords_from_text gives that output again.
C5_RemovalIdempotent ==
    \A k \in 2..Len(rs_out) : rs_out[k] = rs_out[k - 1]

\* the remover ran twice on a text of which it dropped a token and kept another
C5_Witness ==
    /\ Len(rs_out) >= 2
    /\ Len(Split(rs_out[1])) < Len(Split(rs_text))
    /\ Len(Split(rs_out[1])) >= 1

----------------------------------------------------------------------------
(* read_word_list, main.py:140-152 *)

\* str.strip()
RECURSIVE LStrip(_)
LStrip(s) == IF s # << >> /\ Head(s) \in Whitespace THEN LStrip(Tail(s)) ELSE s
RECURSIVE RStrip(_)
RStrip(s) ==
    IF s # << >> /\ s[Len(s)] \in Whitespace THEN RStrip(SubSeq(s, 1, Len(s) - 1)) ELSE s
Strip(s) == RStrip(LStrip(s))

\* str.startswith(prefix)
StartsWith(s, prefix) == Len(s) >= Len(prefix) /\ SubSeq(s, 1, Len(prefix)) = prefix

\* lines 146-148: the body of the for loop, on one line
AddLine(words, line) ==
    LET word == Lower(Strip(line))
    IN  IF word # << >> /\ ~StartsWith(word, << ";" >>) THEN words \cup { word } ELSE words

\* line 144: open(); an error here is caught at line 149
OpenWordList ==
    /\ wl_pc = "open"
    /\ IF wl_fail_at = 0
       THEN wl_failed' = TRUE /\ wl_pc' = "returned"
       ELSE wl_failed' = FALSE /\ wl_pc' = "reading"
    /\ UNCHANGED << wl_lines, wl_fail_at, wl_pos, wl_words >>
    /\ UNCHANGED << analysisVars, stopVars, downloadVars, mainVars >>

\* lines 145-148: one iteration of the loop
ReadLine ==
    /\ wl_pc = "reading"
    /\ wl_pos < Len(wl_lines)
    /\ wl_fail_at # wl_pos
    /\ wl_words' = AddLine(wl_words, wl_lines[wl_pos + 1])
    /\ wl_pos' = wl_pos + 1
    /\ UNCHANGED << wl_lines, wl_fail_at, wl_pc, wl_failed >>
    /\ UNCHANGED << analysisVars, stopVars, downloadVars, mainVars >>

\* the iterator raises (a read or decoding error) after wl_pos lines; lines
\* 149-152: the except branch prints and the function returns words
ReadError ==
    /\ wl_pc = "reading"
    /\ wl_fail_at = wl_pos
    /\ wl_failed' = TRUE
    /\ wl_pc' = "returned"
    /\ UNCHANGED << wl_lines, wl_fail_at, wl_pos, wl_words >>
    /\ UNCHANGED << analysisVars, stopVars, downloadVars, mainVars >>

\* the file is exhausted; line 152: return words
EndOfFile ==
    /\ wl_pc = "reading"
    /\ wl_pos = Len(wl_lines)
    /\ wl_fail_at # wl_pos
    /\ wl_pc' = "returned"
    /\ UNCHANGED << wl_lines, wl_fail_at, wl_pos, wl_words, wl_failed >>
    /\ UNCHANGED << analysisVars, stopVars, downloadVars, mainVars >>

LineChars == { "a", "B", ";", " " }
WordListLines == SeqsOf(LineChars, 0, MaxLineLen)

\* the read succeeds (-1), fails on open (0), or fails when the chunk holding
\* line k + 1 is read, after k lines were handed to the loop
InitWordList ==
    /\ wl_lines \in SeqsOf(WordListLines, 0, MaxLines)
    /\ wl_fail_at \in { -1 } \cup 0..Max(0, Len(wl_lines) - 1)
    /\ wl_pos = 0 /\ wl_words = { } /\ wl_pc = "open" /\ wl_failed = FALSE
    /\ AnalysisIdle /\ StopIdle /\ DownloadIdle /\ MainIdle

NextWordList == OpenWordList \/ ReadLine \/ ReadError \/ EndOfFile

SpecWordList == InitWordList /\ [][NextWordList]_vars

\* C6: if reading the word list fails at any point (on open or after some
\* lines were processed) read_word_list returns an empty lexicon; if it
\* succeeds it returns exactly the trimmed, lower-cased, non-blank lines that
\* do not start with ';'.
C6_EmptyOnFailureExactOnSuccess ==
    wl_pc = "returned" =>
        IF wl_failed
        THEN wl_words = { }
        ELSE wl_words =
                { Lower(Strip(wl_lines[i])) :
                    i \in { j \in DOMAIN wl_lines :
                              /\ Strip(wl_lines[j]) # << >>
                              /\ ~StartsWith(Strip(wl_lines[j]), << ";" >>) } }

----------------------------------------------------------------------------
(* download_article, main.py:28-71 *)

\* line 31
max_retries == 3
\* line 64: a paragraph is kept when len(text) > 20
MinParagraphLen == 20

\* (None, None)
NonePair == [ none |-> TRUE ]

\* a page after lines 45-49: the h1 and title tags (<< >> absent, else << text >>)
\* and the stripped length of each p
TagTexts == { << >>, << " ", "T" >> }
OptionalTags == { << >> } \cup { << t >> : t \in TagTexts }
ParagraphLens == { MinParagraphLen, MinParagraphLen + 1 }
Pages ==
    [ h1 : OptionalTags, title : { << >>, << << "T" >> >> },
      paragraphs : SeqsOf(ParagraphLens, 0, MaxParagraphs) ]
\* what requests.get returns: the status raise_for_status looks at, and the page
Responses == [ status : { "ok", "error" }, page : Pages ]

\* lines 52-56
Title(page) ==
    IF page.h1 # << >> THEN Strip(page.h1[1])
    ELSE IF page.title # << >> THEN Strip(page.title[1])
    ELSE << >>
\* lines 59-65: len(article_text), each kept paragraph followed by "\n"
ArticleTextLen(page) ==
    SumSeq([ i \in DOMAIN page.paragraphs |->
               IF page.paragraphs[i] > MinParagraphLen
               THEN page.paragraphs[i] + 1 ELSE 0 ])

\* line 40 comparing with max_retries, so that the last attempt is not seen
IsLastAttemptOffByOne(attempt) == attempt = max_retries
\* line 40
IsLastAttempt(attempt) == attempt = max_retries - 1

\* lines 38-42, then the next iteration of line 32 or the end of the loop
OnRequestException ==
    /\ da_request_errors' = da_request_errors + 1
    /\ IF IsLastAttempt(da_attempt)
       THEN /\ da_result' = << NonePair >>
            /\ da_pc' = "returned"
            /\ da_attempt' = da_attempt
       ELSE /\ da_result' = da_result
            /\ da_attempt' = da_attempt + 1
            /\ da_pc' = IF da_attempt + 1 < max_retries THEN "get" ELSE "parse"

\* line 35: requests.get returns a response
GetReturns(r) ==
    /\ da_pc = "get"
    /\ da_requests' = da_requests + 1
    /\ da_after_success' = IF da_successes > 0 THEN da_after_success + 1
                           ELSE da_after_success
    /\ da_response' = << r >>
    /\ da_pc' = "status"
    /\ UNCHANGED << da_attempt, da_successes, da_request_errors, da_parsed, da_result >>
    /\ UNCHANGED << analysisVars, stopVars, wordListVars, mainVars >>

\* line 35: requests.get raises a RequestException (timeout, connection error)
GetRaisesRequestException ==
    /\ da_pc = "get"
    /\ da_requests' = da_requests + 1
    /\ da_after_success' = IF da_successes > 0 THEN da_after_success + 1
                           ELSE da_after_success
    /\ OnRequestException
    /\ UNCHANGED << da_successes, da_response, da_parsed >>
    /\ UNCHANGED << analysisVars, stopVars, wordListVars, mainVars >>

\* line 35: requests.get raises another Exception; lines 69-71 return (None, None)
GetRaisesOther ==
    /\ da_pc = "get"
    /\ da_requests' = da_requests + 1
    /\ da_after_success' = IF da_successes > 0 THEN da_after_success + 1
                           ELSE da_after_success
    /\ da_result' = << NonePair >>
    /\ da_pc' = "returned"
    /\ UNCHANGED << da_attempt, da_successes, da_request_errors, da_response, da_parsed >>
    /\ UNCHANGED << analysisVars, stopVars, wordListVars, mainVars >>

\* lines 36-37: raise_for_status passes and the loop is left
StatusOk ==
    /\ da_pc = "status"
    /\ da_response[1].status = "ok"
    /\ da_successes' = da_successes + 1
    /\ da_pc' = "parse"
    /\ UNCHANGED << da_attempt, da_requests, da_request_errors, da_after_success,
                    da_response, da_parsed, da_result >>
    /\ UNCHANGED << analysisVars, stopVars, wordListVars, mainVars >>

\* line 36: raise_for_status raises HTTPError, a RequestException
StatusRaises ==
    /\ da_pc = "status"
    /\ da_response[1].status = "error"
    /\ OnRequestException
    /\ UNCHANGED << da_requests, da_successes, da_after_success, da_response, da_parsed >>
    /\ UNCHANGED << analysisVars, stopVars, wordListVars, mainVars >>

\* lines 45-67: the response is parsed and (title, article_text) returned; with
\* response unbound line 45 raises and lines 69-71 return (None, None)
Parse ==
    /\ da_pc = "parse"
    /\ IF da_response = << >>
       THEN /\ da_parsed' = da_parsed
            /\ da_result' = << NonePair >>
       ELSE /\ da_parsed' = da_response
            /\ da_result' = << [ none |-> FALSE,
                                 title |-> Title(da_response[1].page),
                                 text_len |-> ArticleTextLen(da_response[1].page) ] >>
    /\ da_pc' = "returned"
    /\ UNCHANGED << da_attempt, da_requests, da_successes, da_request_errors,
                    da_after_success, da_response >>
    /\ UNCHANGED << analysisVars, stopVars, wordListVars, mainVars >>

\* lines 45-67 raise an Exception part-way; lines 69-71 return (None, None)
ParseRaises ==
    /\ da_pc = "parse"
    /\ da_response # << >>
    /\ da_parsed' = da_response
    /\ da_result' = << NonePair >>
    /\ da_pc' = "returned"
    /\ UNCHANGED << da_attempt, da_requests, da_successes, da_request_errors,
                    da_after_success, da_response >>
    /\ UNCHANGED << analysisVars, stopVars, wordListVars, mainVars >>

InitDownload ==
    /\ da_pc = "get" /\ da_attempt = 0 /\ da_requests = 0 /\ da_successes = 0
    /\ da_request_errors = 0 /\ da_after_success = 0 /\ da_response = << >>
    /\ da_parsed = << >> /\ da_result = << >>
    /\ AnalysisIdle /\ StopIdle /\ WordListIdle /\ MainIdle

NextDownload ==
    \/ \E r \in Responses : GetReturns(r)
    \/ GetRaisesRequestException
    \/ GetRaisesOther
    \/ StatusOk
    \/ StatusRaises
    \/ Parse
    \/ ParseRaises

\* the function is one sequential call and requests.get has a timeout (line
\* 35): a step that can be taken is taken
SpecDownload == InitDownload /\ [][NextDownload]_vars /\ WF_vars(NextDownload)

DownloadSafety ==
    /\ da_requests <= 3
    /\ da_after_success = 0
    /\ da_request_errors = 3 => da_pc = "returned" /\ da_result = << NonePair >>
    /\ da_parsed # << >> => da_successes = 1 /\ da_parsed[1].status = "ok"
    /\ da_pc = "returned" <=> da_result # << >>

\* C10: download_article issues at most 3 requests, none after the first
\* successful one, returns (None, None) when all 3 attempts fail with a request
\* error, parses only the response of a successful attempt, and always returns.
C10_BoundedRetriesThenReturn == [] DownloadSafety /\ <>(da_pc = "returned")

\* two failed attempts of different kinds, then a third that succeeds and is parsed
C10_Witness ==
    /\ da_pc = "returned"
    /\ da_requests = 3 /\ da_request_errors = 2 /\ da_successes = 1
    /\ da_parsed # << >>
    /\ da_result # << NonePair >>
    /\ da_result[1].text_len > 0

----------------------------------------------------------------------------
(* main, main.py:232-352: the download loop and the analysis loop *)

\* a Python dict d with d[k] = v done
DictSet(d, k, v) == [ x \in DOMAIN d \cup { k } |-> IF x = k THEN v ELSE d[x] ]
\* the keys of that dict in iteration order: a new key goes last, a key already
\* present keeps its place
KeysAfterSet(keys, k) == IF k \in Range(keys) THEN keys ELSE Append(keys, k)

\* line 78: filename = f"{article_id}.txt"
Filename(article_id) == << article_id, ".txt" >>

\* line 254: if title and article_text
Downloaded(pair) == ~pair.none /\ pair.title # << >> /\ pair.text_len > 0

\* lines 247-259: one iteration of the download loop
DownloadRow ==
    /\ m_pc = "download"
    /\ m_index < Len(url_data)
    /\ LET row == url_data[m_index + 1]
           url_id == row.URL_ID
       IN  IF Downloaded(dl_results[m_index + 1])
           THEN /\ files' = [ files EXCEPT
                                !.articles = DictSet(@, Filename(url_id), row.URL) ]
                /\ article_info' = DictSet(article_info, url_id,
                                       [ url |-> row.URL, filename |-> Filename(url_id) ])
                /\ article_keys' = KeysAfterSet(article_keys, url_id)
           ELSE UNCHANGED << files, article_info, article_keys >>
    /\ m_index' = m_index + 1
    /\ UNCHANGED << url_data, dl_results, m_pc, all_results >>
    /\ UNCHANGED << analysisVars, stopVars, wordListVars, downloadVars >>

\* lines 261-295: the download loop is over; every file article_info names is
\* rewritten without its stopwords into data/articles_clean under the same name
CleanArticles ==
    /\ m_pc = "download"
    /\ m_index = Len(url_data)
    /\ files' = [ files EXCEPT
                    !.articles_clean =
                        [ f \in { article_info[k].filename : k \in Range(article_keys) }
                            |-> files.articles[f] ] ]
    /\ m_pc' = "analyze"
    /\ m_index' = 0
    /\ UNCHANGED << url_data, dl_results, article_keys, article_info, all_results >>
    /\ UNCHANGED << analysisVars, stopVars, wordListVars, downloadVars >>

\* lines 301-319: one iteration of the analysis loop, over article_info.items()
AnalyzeArticle ==
    /\ m_pc = "analyze"
    /\ m_index < Len(article_keys)
    /\ LET url_id == article_keys[m_index + 1]
           info == article_info[url_id]
       IN  all_results' = Append(all_results,
                                 [ URL_ID |-> url_id, URL |-> info.url,
                                   analysed |-> files.articles_clean[info.filename] ])
    /\ m_index' = m_index + 1
    /\ UNCHANGED << url_data, dl_results, m_pc, article_keys, article_info, files >>
    /\ UNCHANGED << analysisVars, stopVars, wordListVars, downloadVars >>

\* lines 321-352: the rows of all_results are written out in their order
SaveReport ==
    /\ m_pc = "analyze"
    /\ m_index = Len(article_keys)
    /\ m_pc' = "done"
    /\ UNCHANGED << url_data, dl_results, m_index, article_keys, article_info, files,
                    all_results >>
    /\ UNCHANGED << analysisVars, stopVars, wordListVars, downloadVars >>

UrlIds == { "1", "2" }
\* a URL is named by a number; the rows of a sheet have different URLs, which
\* is what tells them apart in the report
Urls == 1..MaxRows
DownloadResults ==
    { NonePair,
      [ none |-> FALSE, title |-> << >>, text_len |-> MinParagraphLen + 2 ],
      [ none |-> FALSE, title |-> << "T" >>, text_len |-> 0 ],
      [ none |-> FALSE, title |-> << "T" >>, text_len |-> MinParagraphLen + 2 ] }

InitMain ==
    /\ url_data \in SeqsOf([ URL_ID : UrlIds, URL : Urls ], 0, MaxRows)
    /\ \A i, j \in DOMAIN url_data : url_data[i].URL = url_data[j].URL => i = j
    /\ dl_results \in [ DOMAIN url_data -> DownloadResults ]
    /\ m_pc = "download" /\ m_index = 0
    /\ article_keys = << >> /\ article_info = << >>
    /\ files = [ articles |-> << >>, articles_clean |-> << >> ]
    /\ all_results = << >>
    /\ AnalysisIdle /\ StopIdle /\ WordListIdle /\ DownloadIdle

NextMain == DownloadRow \/ CleanArticles \/ AnalyzeArticle \/ SaveReport

SpecMain == InitMain /\ [][NextMain]_vars

\* the URL is carried by some row of the report
InReport(url) == \E p \in DOMAIN all_results : all_results[p].URL = url
ReportPosition(url) == CHOOSE p \in DOMAIN all_results : all_results[p].URL = url

\* C8: the rows of the final report are in the order of the input rows: of two
\* input rows whose articles were downloaded and analyzed, the earlier one's
\* URL is on an earlier report row, also when a URL_ID is repeated.
C8_ReportInInputOrder ==
    m_pc = "done" =>
        \A i, j \in DOMAIN url_data :
            (i < j /\ InReport(url_data[i].URL) /\ InReport(url_data[j].URL))
                => ReportPosition(url_data[i].URL) < ReportPosition(url_data[j].URL)

====
